---------------------------- MODULE Spec2Model ----------------------------
(***************************************************************************)
(* A model of the observable, transactional state stores of the            *)
(* repository:                                                             *)
(*   - src/src/counter.py          State / Model / Actions (counter store) *)
(*                                 and the Presenter of its View           *)
(*   - src/src/todo_refactoring.py TodoState / TodoModel / TodoActions     *)
(*   - src/src/todo_tmp.py         AppState / TodoState (identifier-keyed  *)
(*                                 to-do store)                            *)
(*                                                                         *)
(* Every public method is one action that models the whole call; an        *)
(* asynchronous method is one action per awaited step.  The variables      *)
(* call, before, result and log record the last call, the store as it was  *)
(* when the call started, what the call returned or raised, and the        *)
(* on_state_changed deliveries made during the call.                       *)
(***************************************************************************)
EXTENDS Integers, Sequences, FiniteSets, TLC

\* ------------------------------------------------------------------ bounds

\* The counter is kept within -MaxNeg .. MaxCount.
MaxCount == 2
MaxNeg == 1
\* Longest list of changes a transaction is committed with.
MaxSteps == 2
\* Longest task list of the to-do store of todo_refactoring.py.
MaxTasks == 3
\* The number of identifiers the to-do store of todo_tmp.py issues.
MaxIds == 3
\* The counts Presenter.present is called with are -MaxShown .. MaxShown.
MaxShown == 105

\* ------------------------------------------------------- counter.py: values

\* Python's None, as an error value.
None == [kind |-> "None", detail |-> ""]

\* Python's None where a str is expected.
NoneStr == "<None>"

\* StateValueError(detail): str(e) is the prefixed detail (counter.py:101).
StateValueError(detail) == [kind |-> "StateValueError", detail |-> detail]

\* The detail validate_count passes (counter.py:412, "値は負の数にできません。").
NegativeDetail == "value may not be negative"

\* isinstance(e, StateValueError)
IsStateValueError(e) == e.kind = "StateValueError"

\* An exception that is not a StateValueError.
RuntimeError == [kind |-> "RuntimeError", detail |-> "boom"]
\* The ValueError calculate_next_count raises for an unsupported operation.
ValueError(operation) == [kind |-> "ValueError", detail |-> operation]

\* The error values set_error is called with.
Errors == {None, StateValueError(NegativeDetail), RuntimeError}

\* The two observers View.build binds: the View itself and its CountDisplay.
Observers == {"view", "count_display"}

\* The operations update_count is called with; "reset" is not supported.
Operations == {"increment", "decrement", "reset"}

\* The callables a transaction's list of changes is built from: the two
\* mutators of Model, a callable that raises at once, and one that
\* increments the store and then raises.
ApplyIncrement == [fn |-> "apply_increment", exc |-> None]
ApplyDecrement == [fn |-> "apply_decrement", exc |-> None]
Raise(e) == [fn |-> "raise", exc |-> e]
IncrementThenRaise(e) == [fn |-> "increment_then_raise", exc |-> e]
Changes ==
    {ApplyIncrement, ApplyDecrement, Raise(RuntimeError),
     IncrementThenRaise(StateValueError(NegativeDetail))}

RECURSIVE SeqsUpTo(_, _)
SeqsUpTo(S, n) ==
    IF n = 0 THEN {<<>>}
    ELSE LET shorter == SeqsUpTo(S, n - 1)
         IN  shorter \cup {Append(q, x) : q \in {p \in shorter : Len(p) = n - 1}, x \in S}

Range(q) == {q[i] : i \in DOMAIN q}

\* ------------------------------------------------------------------- state

VARIABLES
    count,      \* State._count
    error,      \* State._error
    observers,  \* State._observers, in binding order
    txn,        \* the StateTransaction begun and not yet committed, or NoTxn
    call,       \* the last call: its name and arguments
    before,     \* the store when the last call started
    result,     \* what the last call raised and returned
    log,        \* the on_state_changed deliveries of the last call, in order
    fault,      \* the exception the next on_state_changed calls raise, and
                \* how many of them raise it
    atasks,     \* the asynchronous operations in flight, one per slot
    kept,       \* a snapshot the caller or an observer holds, and what was
                \* read in it when it was received
    increments  \* n while the store's history is n update_count("increment")
                \* calls on a fresh State (bind and unbind aside), else -1

counter_vars ==
    <<count, error, observers, txn, call, before, result, log, fault, atasks, kept,
      increments>>

\* todo_refactoring.py
VARIABLES
    tasks,         \* TodoState._tasks
    current_tab,   \* TodoState._current_tab
    todo_call,     \* the last TodoActions call: its name and arguments
    tasks_before,  \* _tasks when the last call started
    ui_calls       \* _tasks and _current_tab as each update_ui_callback call
                   \* of the last TodoActions call found them

todo_vars == <<tasks, current_tab, todo_call, tasks_before, ui_calls>>

\* todo_tmp.py
VARIABLES
    app_observers,  \* AppState._observers, in binding order
    app_call,       \* the last AppState call: its name and arguments
    app_before,     \* the AppState store when the last call started
    app_result,     \* what the last AppState call returned and raised
    app_new_task_name,  \* AppState._new_task_name
    app_tab,        \* AppState._current_tab
    todo_status,    \* AppState._todo_status: the TodoState objects, in order
    next_id,        \* the identifier the next uuid4() call returns
    ids_seen,       \* the identifiers uuid4() has returned
    app_log,        \* the on_state_changed deliveries of the last call, in order
    held,           \* the list the caller got from filter_todo_status
    app_kept        \* a snapshot the caller got from get_snapshot, and what
                    \* the caller read in it at that moment

app_vars == <<app_observers, app_call, app_before, app_result, app_new_task_name,
              app_tab,
              todo_status, next_id, ids_seen, app_log, held, app_kept>>

\* counter.py: the View
VARIABLES
    rendered    \* the last Presenter.present call: the snapshot it was given
                \* and the ViewModel it passed to render

view_vars == <<rendered>>

vars == <<counter_vars, todo_vars, app_vars, view_vars>>

NoTxn ==
    [open |-> FALSE, initial_state |-> [frozen |-> TRUE, count |-> 0, error |-> None],
     changes |-> <<>>]

\* ----------------------------------------------------- counter.py: State

\* No on_state_changed call raises.
NoFault == [exc |-> None, left |-> 0]

\* The store as a value the methods below transform.  log collects the
\* deliveries, rounds counts the notify calls, changes_run and ran tell the
\* changes a commit has started, caught is the exception its except branch
\* caught, and exc is the exception that is propagating to the caller.
Store == [count |-> count, error |-> error, observers |-> observers,
          log |-> <<>>, rounds |-> 0, changes_run |-> 0, ran |-> <<>>,
          caught |-> None, fault |-> fault, exc |-> None]

\* State.get_snapshot: a frozen StateSnapshot with copies of the two fields.
get_snapshot(s) == [frozen |-> TRUE, count |-> s.count, error |-> s.error]

\* What the holder of a StateSnapshot reads in it now: a frozen snapshot has
\* its own fields, a view shows the store.
ReadStateSnapshot(snapshot, s) ==
    IF snapshot.frozen THEN snapshot
    ELSE [snapshot EXCEPT !.count = s.count, !.error = s.error]

\* bind without the membership test.
bind_NoCheck(s, control) == [s EXCEPT !.observers = Append(@, control)]

\* State.bind
bind(s, control) ==
    IF control \notin Range(s.observers)
    THEN [s EXCEPT !.observers = Append(@, control)]
    ELSE s

\* list.remove: the first equal element is removed.
ListRemove(q, x) ==
    LET i == CHOOSE k \in DOMAIN q : q[k] = x /\ \A j \in 1..(k - 1) : q[j] # x
    IN  SubSeq(q, 1, i - 1) \o SubSeq(q, i + 1, Len(q))

\* State.unbind: the store and the value returned.
unbind(s, control) ==
    IF control \in Range(s.observers)
    THEN [state |-> [s EXCEPT !.observers = ListRemove(@, control)], ret |-> TRUE]
    ELSE [state |-> s, ret |-> FALSE]

\* notify that walks the observers from the last bound to the first.
notify_Reversed(s) ==
    LET snapshot == get_snapshot(s)
        n == Len(s.observers)
    IN  [s EXCEPT !.rounds = @ + 1,
                  !.log = @ \o
            [i \in 1..n |->
                [observer |-> s.observers[n + 1 - i], snapshot |-> snapshot,
                 round |-> s.rounds + 1, changes_run |-> s.changes_run]]]

\* State.notify: one on_state_changed per observer, in list order; an
\* on_state_changed that raises ends the loop and the exception propagates.
notify(s) ==
    LET snapshot == get_snapshot(s)
        delivery(i) == [observer |-> s.observers[i], snapshot |-> snapshot,
                        round |-> s.rounds + 1, changes_run |-> s.changes_run]
    IN  IF s.fault.left > 0 /\ s.observers # <<>>
        THEN [s EXCEPT !.rounds = @ + 1,
                       !.log = Append(@, delivery(1)),
                       !.fault = IF @.left = 1 THEN NoFault ELSE [@ EXCEPT !.left = @ - 1],
                       !.exc = s.fault.exc]
        ELSE [s EXCEPT !.rounds = @ + 1,
                       !.log = @ \o [i \in 1..Len(s.observers) |-> delivery(i)]]

\* The loop of State.notify from the k-th place of _observers on, when the
\* on_state_changed of the observer reaction.observer calls bind or unbind
\* of the store: the for statement walks the list object itself, by place,
\* so it meets the list as the calls made so far have left it.
RECURSIVE NotifyLoop(_, _, _, _)
NotifyLoop(s, snapshot, k, reaction) ==
    IF k > Len(s.observers) THEN s
    ELSE LET observer == s.observers[k]
             told == [s EXCEPT !.log = Append(@,
                         [observer |-> observer, snapshot |-> snapshot,
                          round |-> s.rounds, changes_run |-> s.changes_run])]
             after == IF observer # reaction.observer THEN told
                      ELSE IF reaction.does = "bind" THEN bind(told, reaction.control)
                      ELSE unbind(told, reaction.control).state
         IN  NotifyLoop(after, snapshot, k + 1, reaction)

\* State.increment
increment(s) == notify([s EXCEPT !.count = @ + 1])

\* State.decrement
decrement(s) == notify([s EXCEPT !.count = @ - 1])

\* State.set_error
set_error(s, e) == notify([s EXCEPT !.error = e])

\* State.has_error
has_error(s) == s.error # None

\* State.begin_transaction
begin_transaction(s) == [open |-> TRUE, initial_state |-> get_snapshot(s), changes |-> <<>>]

\* Model.apply_increment
apply_increment(s) == increment(s)

\* Model.apply_decrement
apply_decrement(s) == decrement(s)

\* A call seen from its caller: the store it leaves, and the exception that
\* came out of it.
Left(s) == [state |-> [s EXCEPT !.exc = None], raised |-> s.exc]

\* change(self): the store after the callable, and the exception it raised.
CallChange(change, s) ==
    CASE change.fn = "apply_increment" -> Left(apply_increment(s))
      [] change.fn = "apply_decrement" -> Left(apply_decrement(s))
      [] change.fn = "raise" -> [state |-> s, raised |-> change.exc]
      [] change.fn = "increment_then_raise" ->
            LET r == Left(increment(s))
            IN  IF r.raised # None THEN r ELSE [r EXCEPT !.raised = change.exc]

\* The for loop that goes on with the next change after one has raised.
RECURSIVE RunChanges_Continue(_, _, _)
RunChanges_Continue(s, changes, i) ==
    IF i > Len(changes) THEN [state |-> s, raised |-> None]
    ELSE LET r == CallChange(changes[i],
                             [s EXCEPT !.changes_run = i, !.ran = Append(@, i)])
             rest == RunChanges_Continue(r.state, changes, i + 1)
         IN  IF r.raised # None THEN [rest EXCEPT !.raised = r.raised] ELSE rest

\* The for loop of commit_transaction: the changes from the i-th on, in
\* order, up to the first that raises.
RECURSIVE RunChanges(_, _, _)
RunChanges(s, changes, i) ==
    IF i > Len(changes) THEN [state |-> s, raised |-> None]
    ELSE LET r == CallChange(changes[i],
                             [s EXCEPT !.changes_run = i, !.ran = Append(@, i)])
         IN  IF r.raised # None THEN r ELSE RunChanges(r.state, changes, i + 1)

\* The except branch of commit_transaction and commit_transaction_async.
Rollback(s, transaction, e) ==
    set_error([s EXCEPT !.count = transaction.initial_state.count, !.caught = e], e)

\* commit_transaction without the restore of _count in the except branch.
commit_transaction_NoRollback(s, transaction) ==
    LET r == RunChanges(s, transaction.changes, 1)
    IN  IF r.raised = None THEN r.state ELSE set_error(r.state, r.raised)

\* State.commit_transaction: every Exception is caught.
commit_transaction(s, transaction) ==
    LET r == RunChanges(s, transaction.changes, 1)
    IN  IF r.raised = None THEN r.state ELSE Rollback(r.state, transaction, r.raised)

\* ----------------------------------------------------- counter.py: Model

\* calculate_next_count with a default case that returns the count as it is.
calculate_next_count_Default(current_count, operation) ==
    CASE operation = "increment" -> [value |-> current_count + 1, raised |-> None]
      [] operation = "decrement" -> [value |-> current_count - 1, raised |-> None]
      [] OTHER -> [value |-> current_count, raised |-> None]

\* Model.calculate_next_count: the value, or the ValueError raised.
calculate_next_count(current_count, operation) ==
    CASE operation = "increment" -> [value |-> current_count + 1, raised |-> None]
      [] operation = "decrement" -> [value |-> current_count - 1, raised |-> None]
      [] OTHER -> [value |-> 0, raised |-> ValueError(operation)]

\* validate_count that lets -1 pass.
validate_count_OffByOne(n) ==
    IF n < -1 THEN [is_valid |-> FALSE, error |-> StateValueError(NegativeDetail)]
    ELSE [is_valid |-> TRUE, error |-> None]

\* Model.validate_count
validate_count(n) ==
    IF n < 0 THEN [is_valid |-> FALSE, error |-> StateValueError(NegativeDetail)]
    ELSE [is_valid |-> TRUE, error |-> None]

\* _prepare_transaction that appends the mutator whatever the validation says.
prepare_transaction_NoGate(s, operation) ==
    LET transaction == begin_transaction(s)
        next_count == calculate_next_count(s.count, operation)
        validation == validate_count(next_count.value)
    IN  IF next_count.raised # None
        THEN [state |-> s, transaction |-> NoTxn, validation |-> validate_count(0),
              raised |-> next_count.raised]
        ELSE [state |-> s,
              transaction |->
                CASE operation = "increment" ->
                        [transaction EXCEPT !.changes = Append(@, ApplyIncrement)]
                  [] operation = "decrement" ->
                        [transaction EXCEPT !.changes = Append(@, ApplyDecrement)]
                  [] OTHER -> transaction,
              validation |-> validation,
              raised |-> None]

\* _prepare_transaction that applies the mutator it plans.
prepare_transaction_Eager(s, operation) ==
    LET transaction == begin_transaction(s)
        next_count == calculate_next_count(s.count, operation)
        validation == validate_count(next_count.value)
    IN  IF next_count.raised # None
        THEN [state |-> s, transaction |-> NoTxn, validation |-> validate_count(0),
              raised |-> next_count.raised]
        ELSE IF ~validation.is_valid
        THEN [state |-> s, transaction |-> transaction, validation |-> validation,
              raised |-> None]
        ELSE IF operation = "increment"
        THEN [state |-> Left(apply_increment(s)).state,
              transaction |-> [transaction EXCEPT !.changes = Append(@, ApplyIncrement)],
              validation |-> validation, raised |-> None]
        ELSE [state |-> Left(apply_decrement(s)).state,
              transaction |-> [transaction EXCEPT !.changes = Append(@, ApplyDecrement)],
              validation |-> validation, raised |-> None]

\* Model._prepare_transaction: the store as the call leaves it, the
\* transaction, the validation result and the exception raised (then no
\* transaction is returned).
prepare_transaction(s, operation) ==
    LET transaction == begin_transaction(s)
        next_count == calculate_next_count(s.count, operation)
        validation == validate_count(next_count.value)
    IN  IF next_count.raised # None
        THEN [state |-> s, transaction |-> NoTxn, validation |-> validate_count(0),
              raised |-> next_count.raised]
        ELSE [state |-> s,
              transaction |->
                IF validation.is_valid
                THEN CASE operation = "increment" ->
                            [transaction EXCEPT !.changes = Append(@, ApplyIncrement)]
                       [] operation = "decrement" ->
                            [transaction EXCEPT !.changes = Append(@, ApplyDecrement)]
                       [] OTHER -> transaction
                ELSE transaction,
              validation |-> validation,
              raised |-> None]

\* choose_error that always adopts the new error.
choose_error_Overwrite(current_error, new_error) == new_error

\* choose_error that keeps a validation error when the new validation passed.
choose_error_KeepOnPass(current_error, new_error) ==
    IF current_error = None THEN new_error
    ELSE IF ~IsStateValueError(current_error) THEN current_error
    ELSE IF new_error = None THEN current_error ELSE new_error

\* Model.choose_error
choose_error(current_error, new_error) ==
    IF current_error = None THEN new_error
    ELSE IF ~IsStateValueError(current_error) THEN current_error
    ELSE new_error

\* Model.update_error
update_error(s, validation) == set_error(s, choose_error(s.error, validation.error))

\* update_count that commits the prepared transaction twice.
update_count_CommitTwice(s, operation) ==
    LET p == prepare_transaction(s, operation)
    IN  IF p.raised # None THEN [state |-> p.state, raised |-> p.raised]
        ELSE Left(update_error(
                    commit_transaction(commit_transaction(p.state, p.transaction),
                                       p.transaction),
                    p.validation))

\* Model.update_count: the store after the call and the exception raised to
\* the caller.
update_count(s, operation) ==
    LET p == prepare_transaction(s, operation)
        c == commit_transaction(p.state, p.transaction)
    IN  IF p.raised # None THEN [state |-> p.state, raised |-> p.raised]
        ELSE IF c.exc # None THEN Left(c)
        ELSE Left(update_error(c, p.validation))

\* ---------------------------------------------------- counter.py: Actions

\* Actions.increment: what update_count leaves, and the number of calls of
\* _update_ui_callback.
Actions_increment(s) ==
    LET r == update_count(s, "increment")
    IN  [state |-> r.state, raised |-> r.raised, ui_updates |-> 0]

\* Actions.decrement
Actions_decrement(s) ==
    LET r == update_count(s, "decrement")
    IN  [state |-> r.state, raised |-> r.raised, ui_updates |-> 0]

\* The calls of _update_ui_callback Actions.increment_async and
\* Actions.decrement_async make once update_count_async has resolved.
Actions_async_ui_updates == 0

\* ----------------------------------------------------------------- actions

NoCall == [name |-> "init", operation |-> "", control |-> "", error |-> None,
           transaction |-> NoTxn, validation |-> validate_count(0)]

\* What a call reports: the exception raised, the value returned, and what
\* the store recorded of a commit.
Outcome(s, raised, ret) ==
    [raised |-> raised, ret |-> ret, changes_run |-> s.changes_run, ran |-> s.ran,
     caught |-> s.caught, ui_updates |-> 0]

Returned(ret) ==
    [raised |-> None, ret |-> ret, changes_run |-> 0, ran |-> <<>>, caught |-> None,
     ui_updates |-> 0]

InRange(n) == -MaxNeg <= n /\ n <= MaxCount

\* The store variables take the values of s.
StoreBecomes(s) ==
    /\ count' = s.count
    /\ error' = s.error
    /\ observers' = s.observers
    /\ fault' = s.fault
    /\ log' = s.log
    /\ UNCHANGED kept
    /\ UNCHANGED <<todo_vars, app_vars, view_vars>>

\* The store as a call finds it.
Before == [count |-> count, error |-> error, observers |-> observers, fault |-> fault]

\* The call is none of the increments of a fresh store.
NotFresh == increments' = -1

\* The slots of the asynchronous operations.
Slots == {1, 2}

\* The outcome of a call, for comparison.
Seen(s, raised) == [count |-> s.count, error |-> s.error, log |-> s.log, raised |-> raised]

\* A slot without an operation.  pc is the place of the coroutine, i the
\* index of the next change, ran the changes started, caught the exception
\* of a change, raised the exception the operation ended with, and sync the
\* outcome the synchronous method would have had when the operation started.
IdleTask ==
    [pc |-> "idle", kind |-> "", handler |-> "", operation |-> "",
     transaction |-> NoTxn, validation |-> validate_count(0), i |-> 0, ran |-> <<>>,
     caught |-> None, raised |-> None, ui_updates |-> 0,
     sync |-> [count |-> 0, error |-> None, log |-> <<>>, raised |-> None]]

\* atasks has an entry for every slot that was used.
InFlight(slot) == slot \in DOMAIN atasks /\ atasks[slot].pc # "done"

\* The operations in flight: a coroutine that has ended is gone when the
\* next call is made.
Running == [slot \in {k \in DOMAIN atasks : atasks[k].pc # "done"} |-> atasks[slot]]

\* No asynchronous operation is in flight.
Quiet == \A slot \in Slots : ~InFlight(slot)

\* A synchronous call: the store variables take the values of s; before and
\* log record the call.
Becomes(s) ==
    /\ StoreBecomes(s)
    /\ before' = Before
    /\ atasks' = Running

CounterInit ==
    /\ count = 0
    /\ error = None
    /\ observers = <<>>
    /\ txn = NoTxn
    /\ call = NoCall
    /\ fault = NoFault
    /\ before = [count |-> 0, error |-> None, observers |-> <<>>, fault |-> NoFault]
    /\ result = Returned("None")
    /\ log = <<>>
    /\ kept = [taken |-> FALSE, snapshot |-> NoTxn.initial_state, seen |-> NoTxn.initial_state]
    /\ atasks = [slot \in {} |-> IdleTask]
    /\ increments = 0

Bind(control) ==
    /\ Becomes(bind(Store, control))
    /\ call' = [NoCall EXCEPT !.name = "bind", !.control = control]
    /\ result' = Returned("None")
    /\ UNCHANGED <<txn, increments>>

Unbind(control) ==
    LET r == unbind(Store, control)
    IN  /\ Becomes(r.state)
        /\ call' = [NoCall EXCEPT !.name = "unbind", !.control = control]
        /\ result' = Returned(IF r.ret THEN "True" ELSE "False")
        /\ UNCHANGED <<txn, increments>>

Increment ==
    \E s \in {increment(Store)} :
        /\ count < MaxCount
        /\ Becomes(s)
        /\ call' = [NoCall EXCEPT !.name = "increment"]
        /\ result' = Outcome(s, s.exc, "None")
        /\ NotFresh
        /\ UNCHANGED txn

Decrement ==
    \E s \in {decrement(Store)} :
        /\ count > -MaxNeg
        /\ Becomes(s)
        /\ call' = [NoCall EXCEPT !.name = "decrement"]
        /\ result' = Outcome(s, s.exc, "None")
        /\ NotFresh
        /\ UNCHANGED txn

SetError(e) ==
    \E s \in {set_error(Store, e)} :
        /\ Becomes(s)
        /\ call' = [NoCall EXCEPT !.name = "set_error", !.error = e]
        /\ result' = Outcome(s, s.exc, "None")
        /\ NotFresh
        /\ UNCHANGED txn

\* state.set_error(e) with an observer whose on_state_changed changes the
\* registry.
SetErrorReacting(e, reaction) ==
    \E changed \in {[Store EXCEPT !.error = e, !.rounds = @ + 1]} :
    \E s \in {NotifyLoop(changed, get_snapshot(changed), 1, reaction)} :
        /\ Becomes(s)
        /\ call' = [NoCall EXCEPT !.name = "set_error", !.error = e]
        /\ result' = Outcome(s, s.exc, "None")
        /\ NotFresh
        /\ UNCHANGED txn

\* state.get_snapshot(), the caller keeping what is returned.
GetSnapshot ==
    \E snapshot \in {get_snapshot(Store)} :
        /\ kept' = [taken |-> TRUE, snapshot |-> snapshot,
                    seen |-> ReadStateSnapshot(snapshot, Store)]
        /\ call' = [NoCall EXCEPT !.name = "get_snapshot"]
        /\ result' = Returned("StateSnapshot")
        /\ before' = Before
        /\ log' = <<>>
        /\ atasks' = Running
        /\ NotFresh
        /\ UNCHANGED <<count, error, observers, fault, txn>>
        /\ UNCHANGED <<todo_vars, app_vars, view_vars>>

\* An observer keeps the snapshot of its last on_state_changed.
KeepDelivered ==
    /\ log # <<>>
    /\ kept' = [taken |-> TRUE, snapshot |-> log[Len(log)].snapshot,
                seen |-> ReadStateSnapshot(log[Len(log)].snapshot, Store)]
    /\ UNCHANGED <<count, error, observers, txn, call, before, result, log, fault, atasks,
                   increments>>
    /\ UNCHANGED <<todo_vars, app_vars, view_vars>>

BeginTransaction ==
    /\ Becomes(Store)
    /\ txn' = begin_transaction(Store)
    /\ call' = [NoCall EXCEPT !.name = "begin_transaction"]
    /\ result' = Returned("StateTransaction")
    /\ NotFresh

\* Model._prepare_transaction, called directly.
PrepareTransaction(operation) ==
    \E p \in {prepare_transaction(Store, operation)} :
        /\ Becomes(p.state)
        /\ txn' = IF p.raised # None THEN txn ELSE p.transaction
        /\ call' = [NoCall EXCEPT !.name = "_prepare_transaction", !.operation = operation]
        /\ result' = Outcome(p.state, p.raised,
                             IF p.raised # None THEN "None"
                             ELSE IF p.validation.is_valid THEN "valid" ELSE "invalid")
        /\ NotFresh

\* commit_transaction of the open transaction, after the caller has appended
\* the callables of more to its list of changes.
CommitTransaction(more) ==
    /\ txn.open
    /\ Len(txn.changes) + Len(more) <= MaxSteps
    /\ LET transaction == [txn EXCEPT !.changes = @ \o more]
       IN  \E s \in {commit_transaction(Store, transaction)} :
            /\ InRange(s.count)
            /\ Becomes(s)
            /\ call' = [NoCall EXCEPT !.name = "commit_transaction",
                                      !.transaction = transaction]
            /\ result' = Outcome(s, s.exc, "None")
    /\ txn' = NoTxn
    /\ NotFresh

\* Model.update_error, called directly with a validation result.
UpdateError(validation) ==
    \E s \in {update_error(Store, validation)} :
        /\ Becomes(s)
        /\ call' = [NoCall EXCEPT !.name = "update_error", !.validation = validation]
        /\ result' = Outcome(s, s.exc, "None")
        /\ NotFresh
        /\ UNCHANGED txn

UpdateCount(operation) ==
    \E r \in {update_count(Store, operation)} :
        /\ InRange(r.state.count)
        /\ Becomes(r.state)
        /\ call' = [NoCall EXCEPT !.name = "update_count", !.operation = operation]
        /\ result' = Outcome(r.state, r.raised, "None")
        /\ increments' = IF operation = "increment" /\ increments >= 0
                         THEN increments + 1 ELSE -1
        /\ UNCHANGED txn

\* An on_state_changed of the bound observers starts to fail: the next n
\* calls raise e.
ArmFault(e, n) ==
    /\ fault = NoFault
    /\ fault' = [exc |-> e, left |-> n]
    /\ NotFresh
    /\ UNCHANGED <<count, error, observers, txn, call, before, result, log, atasks, kept>>
    /\ UNCHANGED <<todo_vars, app_vars, view_vars>>

\* Actions.increment and Actions.decrement, the handlers of the two buttons.
ActionsSync(operation) ==
    \E r \in {IF operation = "increment" THEN Actions_increment(Store)
              ELSE Actions_decrement(Store)} :
        /\ InRange(r.state.count)
        /\ Becomes(r.state)
        /\ call' = [NoCall EXCEPT !.name = "Actions", !.operation = operation]
        /\ result' = [Outcome(r.state, r.raised, "None") EXCEPT !.ui_updates = r.ui_updates]
        /\ NotFresh
        /\ UNCHANGED txn

\* ------------------------------------------ counter.py: the async methods

\* The store as a step of an asynchronous operation finds it: the deliveries
\* of the operation so far are in log.
Resume(task) ==
    [Store EXCEPT !.log = log,
                  !.rounds = IF log = <<>> THEN 0 ELSE log[Len(log)].round,
                  !.ran = task.ran,
                  !.changes_run = IF task.ran = <<>> THEN 0 ELSE task.ran[Len(task.ran)]]

\* update_count_async that returns after commit_transaction_async.
AfterCommit_Return(task) == "done"

\* Where the coroutine goes on after commit_transaction_async.
AfterCommit(task) == IF task.kind = "update_count_async" THEN "reconcile" ELSE "done"

\* An asynchronous operation starts in a free slot.
Starts(slot, task) ==
    /\ ~InFlight(slot)
    /\ atasks' = [k \in DOMAIN Running \cup {slot} |-> IF k = slot THEN task ELSE atasks[k]]
    /\ before' = Before
    /\ log' = <<>>
    /\ result' = Returned("coroutine")
    /\ NotFresh
    /\ UNCHANGED <<count, error, observers, fault, kept>>
    /\ UNCHANGED <<todo_vars, app_vars, view_vars>>

\* A step of the operation in slot: the store takes the values of s.
Steps(slot, s, task) ==
    /\ StoreBecomes(s)
    /\ atasks' = [atasks EXCEPT ![slot] = task]
    /\ UNCHANGED <<txn, call, before, result, increments>>

\* Model.update_count_async(state, operation) is called, for a handler of
\* Actions or directly (handler "").
UpdateCountAsync(slot, operation, handler) ==
    \E r \in {update_count(Store, operation)} :
        /\ InRange(r.state.count)
        /\ Starts(slot, [IdleTask EXCEPT !.pc = "prepare", !.kind = "update_count_async",
                                         !.handler = handler, !.operation = operation,
                                         !.sync = Seen(r.state, r.raised)])
        /\ call' = [NoCall EXCEPT !.name = "update_count_async", !.operation = operation]
        /\ UNCHANGED txn

\* Actions.increment_async and Actions.decrement_async
ActionsAsync(slot, operation) == UpdateCountAsync(slot, operation, "Actions")

\* await asyncio.to_thread(Model._prepare_transaction, state, operation)
AsyncPrepare(slot) ==
    /\ slot \in DOMAIN atasks
    /\ atasks[slot].pc = "prepare"
    /\ \E task \in {atasks[slot]} :
       \E p \in {prepare_transaction(Resume(task), task.operation)} :
          Steps(slot, p.state,
                 IF p.raised # None
                 THEN [task EXCEPT !.pc = "done", !.raised = p.raised,
                                   !.ui_updates = 0]
                 ELSE [task EXCEPT !.pc = IF p.transaction.changes = <<>>
                                          THEN "reconcile" ELSE "commit",
                                   !.transaction = p.transaction,
                                   !.validation = p.validation,
                                   !.i = 1])

\* state.commit_transaction_async(transaction) is called with the open
\* transaction, after the caller has appended the callables of more.
CommitTransactionAsync(slot, more) ==
    /\ txn.open
    /\ Len(txn.changes) + Len(more) <= MaxSteps
    /\ \E transaction \in {[txn EXCEPT !.changes = @ \o more]} :
       \E s \in {commit_transaction(Store, transaction)} :
           /\ InRange(s.count)
           /\ Starts(slot, [IdleTask EXCEPT !.pc = IF transaction.changes = <<>>
                                                  THEN "done" ELSE "commit",
                                            !.kind = "commit_transaction_async",
                                            !.transaction = transaction,
                                            !.i = 1,
                                            !.sync = Seen(s, s.exc)])
           /\ call' = [NoCall EXCEPT !.name = "commit_transaction_async",
                                     !.transaction = transaction]
    /\ txn' = NoTxn

\* await self._apply_change_async(change), for the i-th change.
AsyncApplyChange(slot) ==
    /\ slot \in DOMAIN atasks
    /\ atasks[slot].pc = "commit"
    /\ \E task \in {atasks[slot]}, i \in {atasks[slot].i} :
       \E r \in {CallChange(task.transaction.changes[i],
                            [Resume(task) EXCEPT !.changes_run = i, !.ran = Append(@, i)])} :
          Steps(slot, r.state,
                 IF r.raised # None
                 THEN [task EXCEPT !.pc = "rollback", !.caught = r.raised, !.ran = r.state.ran]
                 ELSE [task EXCEPT !.pc = IF i = Len(task.transaction.changes)
                                          THEN AfterCommit(task) ELSE "commit",
                                   !.i = i + 1, !.ran = r.state.ran])

\* The except branch of commit_transaction_async.
AsyncRollback(slot) ==
    /\ slot \in DOMAIN atasks
    /\ atasks[slot].pc = "rollback"
    /\ \E task \in {atasks[slot]} :
       \E s \in {Rollback(Resume(task), task.transaction, task.caught)} :
          Steps(slot, s,
                 IF s.exc # None THEN [task EXCEPT !.pc = "done", !.raised = s.exc]
                 ELSE [task EXCEPT !.pc = AfterCommit(task)])

\* Model.update_error(state, validation), the last statement of
\* update_count_async.
AsyncUpdateError(slot) ==
    /\ slot \in DOMAIN atasks
    /\ atasks[slot].pc = "reconcile"
    /\ \E task \in {atasks[slot]} :
       \E s \in {update_error(Resume(task), task.validation)} :
          Steps(slot, s, [task EXCEPT !.pc = "done", !.raised = s.exc,
                                       !.ui_updates = IF task.handler = "Actions"
                                                      THEN Actions_async_ui_updates ELSE 0])


\* ------------------------------------------- todo_refactoring.py: the store

Tabs == {"all", "active", "completed"}

\* The task names the user types.
TaskNames == {"X", "Y"}

\* TaskState(task_name, completed=...)
TaskState(task_name, completed) == [task_name |-> task_name, completed |-> completed]

\* TaskState.with_completed
with_completed(task, completed) == TaskState(task.task_name, completed)

\* TaskState.with_task_name
with_task_name(task, task_name) == TaskState(task_name, task.completed)

\* TodoState.add_task
TodoState_add_task(ts, task_name) == Append(ts, TaskState(task_name, FALSE))

\* TodoState.remove_task
TodoState_remove_task(ts, task_name) ==
    SelectSeq(ts, LAMBDA task : task.task_name # task_name)

\* TodoState.toggle_task_state
TodoState_toggle_task_state(ts, task_name) ==
    [i \in DOMAIN ts |->
        IF ts[i].task_name = task_name
        THEN with_completed(ts[i], ~ts[i].completed)
        ELSE ts[i]]

\* TodoState.edit_task
TodoState_edit_task(ts, task_name, new_task_name) ==
    [i \in DOMAIN ts |->
        IF ts[i].task_name = task_name
        THEN with_task_name(ts[i], new_task_name)
        ELSE ts[i]]

\* TodoModel.add_task
TodoModel_add_task(ts, task_name) == TodoState_add_task(ts, task_name)

\* TodoModel.remove_task
TodoModel_remove_task(ts, task_name) == TodoState_remove_task(ts, task_name)

\* TodoModel.toggle_task_state
TodoModel_toggle_task_state(ts, task_name) == TodoState_toggle_task_state(ts, task_name)

\* TodoModel.save_task
TodoModel_save_task(ts, task_name, new_task_name) ==
    TodoState_edit_task(ts, task_name, new_task_name)

\* The loop of TodoActions.clear_completed.
RECURSIVE RemoveAll(_, _)
RemoveAll(ts, task_names) ==
    IF task_names = <<>> THEN ts
    ELSE RemoveAll(TodoModel_remove_task(ts, Head(task_names)), Tail(task_names))

\* TodoApp.clear_clicked: the names of the completed tasks, in list order.
CompletedNames(ts) ==
    LET done == SelectSeq(ts, LAMBDA task : task.completed)
    IN  [i \in DOMAIN done |-> done[i].task_name]

NoTodoCall == [name |-> "init", index |-> 0, task_name |-> "", new_task_name |-> "",
               tab |-> "all", task_names |-> <<>>]

TodoInit ==
    /\ tasks = <<>>
    /\ current_tab = "all"
    /\ todo_call = NoTodoCall
    /\ tasks_before = <<>>
    /\ ui_calls = <<>>

\* The to-do store as a value the handlers of TodoActions transform;
\* ui_calls collects what each update_ui_callback() call finds.
TodoStore == [tasks |-> tasks, current_tab |-> current_tab, ui_calls |-> <<>>]

\* A handler that returns without calling the callback.
update_ui_callback_Skipped(st) == st

\* self._update_ui_callback(): TodoApp.update rebuilds the page from the
\* store as it is at the call.
update_ui_callback(st) ==
    [st EXCEPT !.ui_calls = Append(@, [tasks |-> st.tasks, current_tab |-> st.current_tab])]

\* The store variables take the values of st; tasks_before and ui_calls
\* record the call.
TodoBecomes(st) ==
    /\ tasks' = st.tasks
    /\ current_tab' = st.current_tab
    /\ tasks_before' = tasks
    /\ ui_calls' = st.ui_calls
    /\ UNCHANGED <<counter_vars, app_vars, view_vars>>

\* TodoActions.add_task (TodoApp.add_clicked)
AddTask(task_name) ==
    /\ Len(tasks) < MaxTasks
    /\ TodoBecomes(update_ui_callback(
            [TodoStore EXCEPT !.tasks = TodoModel_add_task(@, task_name)]))
    /\ todo_call' = [NoTodoCall EXCEPT !.name = "add_task", !.task_name = task_name]

\* TodoActions.change_tab, with the setter of TodoState.current_tab.
ChangeTab(tab) ==
    /\ TodoBecomes(update_ui_callback(
            [TodoStore EXCEPT !.current_tab = IF @ = tab THEN @ ELSE tab]))
    /\ todo_call' = [NoTodoCall EXCEPT !.name = "change_tab", !.tab = tab]

\* TodoActions.clear_completed (TodoApp.clear_clicked)
ClearCompleted ==
    LET task_names == CompletedNames(tasks)
    IN  /\ TodoBecomes(update_ui_callback(
                [TodoStore EXCEPT !.tasks = RemoveAll(@, task_names)]))
        /\ todo_call' = [NoTodoCall EXCEPT !.name = "clear_completed", !.task_names = task_names]

\* TodoActions.toggle_task_state for the i-th task shown (Task.status_changed).
ToggleTaskState(i) ==
    /\ i \in DOMAIN tasks
    /\ TodoBecomes(update_ui_callback(
            [TodoStore EXCEPT !.tasks = TodoModel_toggle_task_state(@, tasks[i].task_name)]))
    /\ todo_call' = [NoTodoCall EXCEPT !.name = "toggle_task_state", !.index = i,
                                       !.task_name = tasks[i].task_name]

\* TodoActions.remove_task for the i-th task shown (Task.delete_clicked).
RemoveTask(i) ==
    /\ i \in DOMAIN tasks
    /\ TodoBecomes(update_ui_callback(
            [TodoStore EXCEPT !.tasks = TodoModel_remove_task(@, tasks[i].task_name)]))
    /\ todo_call' = [NoTodoCall EXCEPT !.name = "remove_task", !.index = i,
                                       !.task_name = tasks[i].task_name]

\* TodoActions.edit_task: the callback alone.
EditTask ==
    /\ TodoBecomes(update_ui_callback(TodoStore))
    /\ todo_call' = [NoTodoCall EXCEPT !.name = "edit_task"]

\* TodoActions.save_task for the i-th task shown (Task.save_clicked).
SaveTask(i, new_task_name) ==
    /\ i \in DOMAIN tasks
    /\ TodoBecomes(update_ui_callback(
            [TodoStore EXCEPT !.tasks =
                TodoModel_save_task(@, tasks[i].task_name, new_task_name)]))
    /\ todo_call' = [NoTodoCall EXCEPT !.name = "save_task", !.index = i,
                                       !.task_name = tasks[i].task_name,
                                       !.new_task_name = new_task_name]

\* -------------------------------------------------------- counter.py: View

\* str(n) of an int: its decimal digits, most significant first, after a
\* minus sign when n is negative.  A text is a sequence of characters.
RECURSIVE str(_)
str(n) ==
    LET digit(d) == <<"0", "1", "2", "3", "4", "5", "6", "7", "8", "9">>[d + 1]
    IN  IF n < 0 THEN <<"-">> \o str(-n)
        ELSE IF n < 10 THEN <<digit(n)>>
        ELSE Append(str(n \div 10), digit(n % 10))

\* _create_view_model without the case for the other errors: every error is
\* shown by its own text.
Presenter_create_view_model_NoFallback(snapshot) ==
    [display_count |-> str(snapshot.count),
     error_message |->
        CASE snapshot.error = None -> NoneStr
          [] IsStateValueError(snapshot.error) ->
                "An error occurred: " \o snapshot.error.detail
          [] OTHER -> snapshot.error.detail]

\* Presenter._create_view_model.  str(error) of a StateValueError is the
\* message its constructor builds (counter.py:101, "エラーが発生しました: "
\* and the detail); the fallback message is "予期せぬエラーが発生しました。".
Presenter_create_view_model(snapshot) ==
    [display_count |-> str(snapshot.count),
     error_message |->
        CASE snapshot.error = None -> NoneStr
          [] IsStateValueError(snapshot.error) ->
                "An error occurred: " \o snapshot.error.detail
          [] OTHER -> "An unexpected error occurred."]

\* Presenter.present(snapshot), as View.on_state_changed calls it: the
\* ViewModel is passed to render.
Present(n, e) ==
    /\ \E snapshot \in {[frozen |-> TRUE, count |-> n, error |-> e]} :
          rendered' = [called |-> TRUE, snapshot |-> snapshot,
                       view_model |-> Presenter_create_view_model(snapshot)]
    /\ UNCHANGED <<counter_vars, todo_vars, app_vars>>

\* ---------------------------------------------------- todo_tmp.py: AppState

\* The observers bound to an AppState.
AppObservers == {"o1", "o2", "o3"}

\* AppState.bind
AppState_bind(obs, control) ==
    IF control \notin Range(obs) THEN Append(obs, control) ELSE obs

\* AppState.unbind: the registry and the value returned.
AppState_unbind(obs, control) ==
    IF control \in Range(obs)
    THEN [observers |-> ListRemove(obs, control), ret |-> TRUE]
    ELSE [observers |-> obs, ret |-> FALSE]

\* Python's None where a datetime is expected.
NoneTime == "<None>"
\* datetime.now(tz=TZ_JST): the model has one instant.
Now == "now"

\* TodoState.__init__ (todo_tmp.py)
TodoState_init(id_, task_name) ==
    [id |-> id_, task_name |-> task_name, editing |-> FALSE, completed |-> FALSE,
     editing_name |-> NoneStr, created_at |-> Now, updated_at |-> NoneTime]

\* TodoState.toggle_completed
TodoState_toggle_completed(todo) ==
    [todo EXCEPT !.completed = ~@, !.updated_at = Now]

\* TodoState.start_edit
TodoState_start_edit(todo) == [todo EXCEPT !.editing = TRUE]

\* TodoState.update_task_name
TodoState_update_task_name(todo, new_name) ==
    [todo EXCEPT !.task_name = new_name, !.updated_at = Now]

\* TodoState.finish_edit
TodoState_finish_edit(todo) == [todo EXCEPT !.editing = FALSE]

\* get_snapshot that hands out a view of the TodoState object itself.
TodoState_get_snapshot_Live(todo) ==
    [frozen |-> FALSE, id |-> todo.id, task_name |-> todo.task_name,
     editing |-> todo.editing, completed |-> todo.completed,
     created_at |-> todo.created_at, updated_at |-> todo.updated_at]

\* TodoState.get_snapshot: a frozen TodoItemSnapshot with copies of the fields.
TodoState_get_snapshot(todo) ==
    [frozen |-> TRUE, id |-> todo.id, task_name |-> todo.task_name,
     editing |-> todo.editing, completed |-> todo.completed,
     created_at |-> todo.created_at, updated_at |-> todo.updated_at]

\* The AppState store as a value the methods below transform; ids_seen is
\* the set of the identifiers issued so far and log collects the deliveries.
AppStore ==
    [new_task_name |-> app_new_task_name, current_tab |-> app_tab,
     todo_status |-> todo_status, observers |-> app_observers,
     next_id |-> next_id, ids_seen |-> ids_seen, log |-> <<>>]

\* AppState.get_snapshot: a frozen TodoAppSnapshot with a new list of item
\* snapshots.
AppState_get_snapshot(a) ==
    [new_task_name |-> a.new_task_name, current_tab |-> a.current_tab,
     todos |-> [i \in DOMAIN a.todo_status |-> TodoState_get_snapshot(a.todo_status[i])]]

\* AppState.notify: one on_state_changed per observer, in list order.
AppState_notify(a) ==
    LET snapshot == AppState_get_snapshot(a)
    IN  [a EXCEPT !.log = @ \o
            [i \in 1..Len(a.observers) |->
                [observer |-> a.observers[i], snapshot |-> snapshot]]]

\* The setter of AppState.new_task_name
AppState_set_new_task_name(a, task_name) ==
    AppState_notify([a EXCEPT !.new_task_name = task_name])

\* The setter of AppState.current_tab
AppState_set_current_tab(a, tab) ==
    AppState_notify([a EXCEPT !.current_tab = tab])

\* uuid4 that numbers the new record by its place in the list.
uuid4_ByPlace(a) == Len(a.todo_status) + 1

\* uuid4(): an identifier no earlier call returned.
uuid4(a) == a.next_id

\* AppState.add_todo
AppState_add_todo(a, task_name) ==
    AppState_notify([a EXCEPT !.todo_status = Append(@, TodoState_init(uuid4(a), task_name)),
                              !.next_id = @ + 1,
                              !.ids_seen = @ \cup {uuid4(a)}])

\* AppState.remove_todo: _todo_status is bound to a new list.
AppState_remove_todo(a, todo_id) ==
    AppState_notify([a EXCEPT !.todo_status = SelectSeq(@, LAMBDA todo : todo.id # todo_id)])

\* The identifiers of a list of TodoState objects.
IdsOf(status) == [i \in DOMAIN status |-> status[i].id]

\* A list of TodoState objects as the caller holds it: the list object of
\* _todo_status itself ("store"), or another list ("copy") of the objects
\* with the identifiers ids.  The elements are the stored objects in both.
NoList == [list |-> "none", ids |-> <<>>]

\* filter_todo_status whose ACTIVE case tests the wrong way round.
AppState_filter_todo_status_Inverted(a, tab) ==
    CASE tab = "all" -> [ret |-> [list |-> "store", ids |-> <<>>], raised |-> None]
      [] tab \in {"active", "completed"} ->
            [ret |-> [list |-> "copy",
                      ids |-> IdsOf(SelectSeq(a.todo_status, LAMBDA todo : todo.completed))],
             raised |-> None]
      [] OTHER -> [ret |-> NoList, raised |-> ValueError(tab)]

\* AppState.filter_todo_status: the list returned, or the ValueError raised.
AppState_filter_todo_status(a, tab) ==
    CASE tab = "all" -> [ret |-> [list |-> "store", ids |-> <<>>], raised |-> None]
      [] tab = "active" ->
            [ret |-> [list |-> "copy",
                      ids |-> IdsOf(SelectSeq(a.todo_status, LAMBDA todo : ~todo.completed))],
             raised |-> None]
      [] tab = "completed" ->
            [ret |-> [list |-> "copy",
                      ids |-> IdsOf(SelectSeq(a.todo_status, LAMBDA todo : todo.completed))],
             raised |-> None]
      [] OTHER -> [ret |-> NoList, raised |-> ValueError(tab)]

\* The identifiers of the objects in a held list, as the list is now.
HeldIds(h, status) == IF h.list = "store" THEN IdsOf(status) ELSE h.ids

\* A held list after the store has bound _todo_status to a new list: the
\* held object is the old list.
Detached(h, status) ==
    IF h.list = "store" THEN [list |-> "copy", ids |-> IdsOf(status)] ELSE h

\* A method of the TodoState object with the identifier id_, called on the
\* object: the stored list holds that very object.
CallOnTodo(status, id_, method, new_name) ==
    [i \in DOMAIN status |->
        IF status[i].id # id_ THEN status[i]
        ELSE CASE method = "toggle_completed" -> TodoState_toggle_completed(status[i])
               [] method = "start_edit" -> TodoState_start_edit(status[i])
               [] method = "update_task_name" -> TodoState_update_task_name(status[i], new_name)
               [] method = "finish_edit" -> TodoState_finish_edit(status[i])]

\* What the holder of an item snapshot reads in it now: a frozen snapshot
\* has its own fields, a view shows the object while the store holds it.
ReadItem(item, status) ==
    IF item.frozen \/ ~\E i \in DOMAIN status : status[i].id = item.id THEN item
    ELSE LET todo == status[CHOOSE i \in DOMAIN status : status[i].id = item.id]
         IN  TodoState_get_snapshot_Live(todo)

\* What the holder of a TodoAppSnapshot reads in it now.
ReadSnapshot(snapshot, status) ==
    [snapshot EXCEPT !.todos = [i \in DOMAIN @ |-> ReadItem(@[i], status)]]

NoAppCall == [name |-> "init", control |-> "", task_name |-> "", tab |-> "",
              todo_id |-> 0, index |-> 0, method |-> ""]

AppReturned(ret) == [ret |-> ret, raised |-> None]

NoKept == [taken |-> FALSE,
           snapshot |-> [new_task_name |-> NoneStr, current_tab |-> "all", todos |-> <<>>],
           seen |-> [new_task_name |-> NoneStr, current_tab |-> "all", todos |-> <<>>]]

AppInit ==
    /\ app_observers = <<>>
    /\ app_call = NoAppCall
    /\ app_result = AppReturned("None")
    /\ app_new_task_name = NoneStr
    /\ app_tab = "all"
    /\ todo_status = <<>>
    /\ next_id = 1
    /\ ids_seen = {}
    /\ app_before = AppStore
    /\ app_log = <<>>
    /\ held = NoList
    /\ app_kept = NoKept

\* The store variables take the values of a; app_before and app_log record
\* the call.
AppBecomes(a) ==
    /\ app_new_task_name' = a.new_task_name
    /\ app_tab' = a.current_tab
    /\ todo_status' = a.todo_status
    /\ app_observers' = a.observers
    /\ next_id' = a.next_id
    /\ app_log' = a.log
    /\ app_before' = AppStore
    /\ ids_seen' = a.ids_seen
    /\ UNCHANGED <<counter_vars, todo_vars, view_vars>>

AppBind(control) ==
    /\ AppBecomes([AppStore EXCEPT !.observers = AppState_bind(@, control)])
    /\ app_call' = [NoAppCall EXCEPT !.name = "bind", !.control = control]
    /\ app_result' = AppReturned("None")
    /\ UNCHANGED <<held, app_kept>>

AppUnbind(control) ==
    LET r == AppState_unbind(app_observers, control)
    IN  /\ AppBecomes([AppStore EXCEPT !.observers = r.observers])
        /\ app_call' = [NoAppCall EXCEPT !.name = "unbind", !.control = control]
        /\ app_result' = AppReturned(IF r.ret THEN "True" ELSE "False")
        /\ UNCHANGED <<held, app_kept>>

\* app_state.new_task_name = task_name
AppSetNewTaskName(task_name) ==
    /\ AppBecomes(AppState_set_new_task_name(AppStore, task_name))
    /\ app_call' = [NoAppCall EXCEPT !.name = "new_task_name", !.task_name = task_name]
    /\ app_result' = AppReturned("None")
    /\ UNCHANGED <<held, app_kept>>

\* app_state.current_tab = tab
AppSetCurrentTab(tab) ==
    /\ AppBecomes(AppState_set_current_tab(AppStore, tab))
    /\ app_call' = [NoAppCall EXCEPT !.name = "current_tab", !.tab = tab]
    /\ app_result' = AppReturned("None")
    /\ UNCHANGED <<held, app_kept>>

AppAddTodo(task_name) ==
    /\ next_id <= MaxIds
    /\ AppBecomes(AppState_add_todo(AppStore, task_name))
    /\ app_call' = [NoAppCall EXCEPT !.name = "add_todo", !.task_name = task_name]
    /\ app_result' = AppReturned("None")
    /\ UNCHANGED <<held, app_kept>>

AppRemoveTodo(todo_id) ==
    /\ AppBecomes(AppState_remove_todo(AppStore, todo_id))
    /\ app_call' = [NoAppCall EXCEPT !.name = "remove_todo", !.todo_id = todo_id]
    /\ app_result' = AppReturned("None")
    /\ held' = Detached(held, todo_status)
    /\ UNCHANGED app_kept

\* app_state.get_snapshot(), the caller keeping what is returned.
AppGetSnapshot ==
    LET snapshot == AppState_get_snapshot(AppStore)
    IN  /\ AppBecomes(AppStore)
        /\ app_call' = [NoAppCall EXCEPT !.name = "get_snapshot"]
        /\ app_result' = AppReturned("TodoAppSnapshot")
        /\ app_kept' = [taken |-> TRUE, snapshot |-> snapshot,
                        seen |-> ReadSnapshot(snapshot, todo_status)]
        /\ UNCHANGED held

\* An observer keeps the snapshot of its last on_state_changed.
AppKeepDelivered ==
    /\ app_log # <<>>
    /\ app_kept' = [taken |-> TRUE, snapshot |-> app_log[Len(app_log)].snapshot,
                    seen |-> ReadSnapshot(app_log[Len(app_log)].snapshot, todo_status)]
    /\ UNCHANGED <<app_observers, app_call, app_before, app_result, app_new_task_name,
                   app_tab, todo_status, next_id, ids_seen, app_log, held>>
    /\ UNCHANGED <<counter_vars, todo_vars, view_vars>>

\* app_state.filter_todo_status(tab), the caller keeping what is returned.
AppFilterTodoStatus(tab) ==
    LET r == AppState_filter_todo_status(AppStore, tab)
    IN  /\ AppBecomes(AppStore)
        /\ app_call' = [NoAppCall EXCEPT !.name = "filter_todo_status", !.tab = tab]
        /\ app_result' = [ret |-> IF r.raised # None THEN "None" ELSE "list",
                          raised |-> r.raised]
        /\ held' = IF r.raised # None THEN held ELSE r.ret
        /\ UNCHANGED app_kept

\* held.pop(): the caller removes the last element of the list it holds.
HeldPop ==
    /\ held.list # "none"
    /\ HeldIds(held, todo_status) # <<>>
    /\ AppBecomes([AppStore EXCEPT !.todo_status =
            IF held.list = "store" THEN SubSeq(@, 1, Len(@) - 1) ELSE @])
    /\ held' = IF held.list = "store" THEN held
               ELSE [held EXCEPT !.ids = SubSeq(@, 1, Len(@) - 1)]
    /\ app_call' = [NoAppCall EXCEPT !.name = "held.pop"]
    /\ app_result' = AppReturned("TodoState")
    /\ UNCHANGED app_kept

\* held[i].method(): the caller calls a method of an element of the list it
\* holds.
HeldCall(i, method, new_name) ==
    /\ held.list # "none"
    /\ i \in DOMAIN HeldIds(held, todo_status)
    /\ AppBecomes([AppStore EXCEPT !.todo_status =
            CallOnTodo(@, HeldIds(held, todo_status)[i], method, new_name)])
    /\ app_call' = [NoAppCall EXCEPT !.name = "held[i]", !.index = i, !.method = method,
                                     !.todo_id = HeldIds(held, todo_status)[i],
                                     !.task_name = new_name]
    /\ app_result' = AppReturned("None")
    /\ UNCHANGED <<held, app_kept>>

\* ---------------------------------------------------------- specifications

\* Nothing has been presented when the View is built.
Init ==
    /\ CounterInit /\ TodoInit /\ AppInit
    /\ rendered = [called |-> FALSE, snapshot |-> get_snapshot(Store),
                   view_model |-> [display_count |-> <<>>, error_message |-> NoneStr]]

\* The counter application: the Model operations and the store's own methods.
Next ==
    \/ \E control \in Observers : Bind(control)
    \/ \E control \in Observers : Unbind(control)
    \/ Increment
    \/ Decrement
    \/ \E e \in Errors : SetError(e)
    \/ \E operation \in Operations : PrepareTransaction(operation)
    \/ \E n \in {-1, 0} : UpdateError(validate_count(n))
    \/ \E operation \in Operations : UpdateCount(operation)

Spec == Init /\ [][Next]_vars

\* The store's transaction interface: a transaction is begun, the store may
\* change while it is open, and it is committed with a list of changes.
NextTxn ==
    \/ \E control \in Observers : Bind(control)
    \/ \E control \in Observers : Unbind(control)
    \/ Increment
    \/ Decrement
    \/ \E e \in Errors : SetError(e)
    \/ BeginTransaction
    \/ \E more \in SeqsUpTo(Changes, MaxSteps) : CommitTransaction(more)

SpecTxn == Init /\ [][NextTxn]_vars

\* The to-do list of todo_refactoring.py, driven through TodoActions.
NextTodo ==
    \/ \E task_name \in TaskNames : AddTask(task_name)
    \/ \E tab \in Tabs : ChangeTab(tab)
    \/ ClearCompleted
    \/ \E i \in 1..MaxTasks : ToggleTaskState(i)
    \/ \E i \in 1..MaxTasks : RemoveTask(i)
    \/ EditTask
    \/ \E i \in 1..MaxTasks, new_task_name \in TaskNames : SaveTask(i, new_task_name)

SpecTodo == Init /\ [][NextTodo]_vars

\* The observer registries of State (counter.py) and AppState (todo_tmp.py).
NextBind ==
    \/ \E control \in Observers : Bind(control)
    \/ \E control \in Observers : Unbind(control)
    \/ \E control \in AppObservers : AppBind(control)
    \/ \E control \in AppObservers : AppUnbind(control)

SpecBind == Init /\ [][NextBind]_vars

\* The counter application as its buttons drive it: the four handlers of
\* Actions, one operation at a time, each asynchronous operation running
\* to its end before the next handler is called.
NextActions ==
    \/ Quiet /\ \E control \in Observers : Bind(control)
    \/ Quiet /\ \E control \in Observers : Unbind(control)
    \/ Quiet /\ \E operation \in {"increment", "decrement"} : ActionsSync(operation)
    \/ Quiet /\ \E operation \in {"increment", "decrement"} : ActionsAsync(1, operation)
    \/ AsyncPrepare(1)
    \/ AsyncApplyChange(1)
    \/ AsyncUpdateError(1)

SpecActions == Init /\ [][NextActions]_vars

\* The synchronous and the asynchronous commit and update_count_async, used
\* serially: an asynchronous operation runs to its end before anything else
\* is called.
NextAsync ==
    \/ Quiet /\ \E control \in Observers : Bind(control)
    \/ Quiet /\ BeginTransaction
    \/ Quiet /\ \E more \in SeqsUpTo(Changes, MaxSteps) : CommitTransaction(more)
    \/ Quiet /\ \E more \in SeqsUpTo(Changes, MaxSteps) : CommitTransactionAsync(1, more)
    \/ Quiet /\ \E operation \in Operations : UpdateCountAsync(1, operation, "")
    \/ AsyncPrepare(1)
    \/ AsyncApplyChange(1)
    \/ AsyncRollback(1)
    \/ AsyncUpdateError(1)

SpecAsync == Init /\ [][NextAsync]_vars

\* update_count and update_count_async, used serially, with observers whose
\* on_state_changed may raise.
NextFault ==
    \/ Quiet /\ \E control \in Observers : Bind(control)
    \/ Quiet /\ \E control \in Observers : Unbind(control)
    \/ Quiet /\ \E e \in Errors \ {None}, n \in 1..2 : ArmFault(e, n)
    \/ Quiet /\ \E operation \in Operations : UpdateCount(operation)
    \/ Quiet /\ \E operation \in Operations : UpdateCountAsync(1, operation, "")
    \/ AsyncPrepare(1)
    \/ AsyncApplyChange(1)
    \/ AsyncRollback(1)
    \/ AsyncUpdateError(1)

SpecFault == Init /\ [][NextFault]_vars

\* The to-do store of todo_tmp.py through the methods of AppState.
NextApp ==
    \/ \E control \in {"o1", "o2"} : AppBind(control)
    \/ \E task_name \in TaskNames : AppSetNewTaskName(task_name)
    \/ \E tab \in Tabs : AppSetCurrentTab(tab)
    \/ \E task_name \in TaskNames : AppAddTodo(task_name)
    \/ \E todo_id \in 1..MaxIds : AppRemoveTodo(todo_id)

SpecApp == Init /\ [][NextApp]_vars

\* Snapshots of the two stores, held while the store goes on changing.  The
\* stores belong to different programs: a behaviour uses one of them.
NextSnap ==
    \/ app_call.name = "init" /\ Bind("view")
    \/ app_call.name = "init" /\ GetSnapshot
    \/ app_call.name = "init" /\ KeepDelivered
    \/ app_call.name = "init" /\ \E e \in Errors : SetError(e)
    \/ app_call.name = "init" /\ \E operation \in Operations : UpdateCount(operation)
    \/ call.name = "init" /\ AppBind("o1")
    \/ call.name = "init" /\ AppGetSnapshot
    \/ call.name = "init" /\ AppKeepDelivered
    \/ call.name = "init" /\ next_id < MaxIds /\ AppAddTodo("X")
    \/ call.name = "init" /\ \E todo_id \in 1..MaxIds : AppRemoveTodo(todo_id)
    \/ call.name = "init" /\ AppFilterTodoStatus("all")
    \/ call.name = "init" /\ \E i \in 1..MaxIds : HeldCall(i, "toggle_completed", "")

SpecSnap == Init /\ [][NextSnap]_vars

\* The lists AppState.filter_todo_status returns, and what their holder does
\* with them.
NextAlias ==
    \/ next_id < MaxIds /\ AppAddTodo("X")
    \/ \E todo_id \in 1..MaxIds : AppRemoveTodo(todo_id)
    \/ \E tab \in Tabs \cup {"unknown"} : AppFilterTodoStatus(tab)
    \/ HeldPop
    \/ \E i \in 1..MaxIds,
          method \in {"toggle_completed", "start_edit", "update_task_name", "finish_edit"} :
            HeldCall(i, method, "Y")

SpecAlias == Init /\ [][NextAlias]_vars

\* The notifying methods of the two observable stores.  The stores belong to
\* different programs: a behaviour uses one of them.
NextNotify ==
    \/ app_call.name = "init" /\ \E control \in Observers : Bind(control)
    \/ app_call.name = "init" /\ \E control \in Observers : Unbind(control)
    \/ app_call.name = "init" /\ Increment
    \/ app_call.name = "init" /\ Decrement
    \/ app_call.name = "init" /\ \E e \in Errors : SetError(e)
    \/ app_call.name = "init" /\ \E operation \in Operations : UpdateCount(operation)
    \/ call.name = "init" /\ \E control \in {"o1", "o2"} : AppBind(control)
    \/ call.name = "init" /\ \E control \in {"o1", "o2"} : AppUnbind(control)
    \/ call.name = "init" /\ \E task_name \in TaskNames : AppSetNewTaskName(task_name)
    \/ call.name = "init" /\ \E tab \in Tabs : AppSetCurrentTab(tab)
    \/ call.name = "init" /\ \E task_name \in TaskNames : AppAddTodo(task_name)
    \/ call.name = "init" /\ \E todo_id \in 1..MaxIds : AppRemoveTodo(todo_id)

SpecNotify == Init /\ [][NextNotify]_vars

\* The to-do store with an observer, its records reached through the lists
\* filter_todo_status returns and changed through their own methods.
NextItems ==
    \/ AppBind("o1")
    \/ AppSetNewTaskName("X")
    \/ AppSetCurrentTab("active")
    \/ next_id < MaxIds /\ AppAddTodo("X")
    \/ \E todo_id \in 1..MaxIds : AppRemoveTodo(todo_id)
    \/ \E tab \in Tabs : AppFilterTodoStatus(tab)
    \/ \E i \in 1..MaxIds : HeldCall(i, "toggle_completed", "")
    \/ \E method \in {"start_edit", "update_task_name", "finish_edit"} :
            HeldCall(1, method, "X")

SpecItems == Init /\ [][NextItems]_vars

\* Asynchronous handlers of Actions called while others are in flight: the
\* coroutines interleave at their awaits.
NextRace ==
    \/ \E slot \in Slots, operation \in {"increment", "decrement"} :
            ActionsAsync(slot, operation)
    \/ \E slot \in Slots : AsyncPrepare(slot)
    \/ \E slot \in Slots : AsyncApplyChange(slot)
    \/ \E slot \in Slots : AsyncUpdateError(slot)

SpecRace == Init /\ [][NextRace]_vars

\* The store with observers that bind or unbind an observer from inside
\* on_state_changed.
NextReacting ==
    \/ \E control \in Observers \cup {"other"} : Bind(control)
    \/ \E control \in Observers \cup {"other"} : Unbind(control)
    \/ \E e \in Errors, observer \in Observers \cup {"other"},
          does \in {"bind", "unbind"}, control \in Observers \cup {"other"} :
            SetErrorReacting(e, [observer |-> observer, does |-> does, control |-> control])

SpecReacting == Init /\ [][NextReacting]_vars

\* The Presenter, given snapshots of every count and every kind of error.
SpecPresent ==
    Init /\ [][\E n \in -MaxShown..MaxShown,
                  e \in Errors \cup {StateValueError(""), ValueError("reset")} :
                    Present(n, e)]_vars


\* ------------------------------------------------------------------ claims

Delivered(o) == Cardinality({i \in DOMAIN log : log[i].observer = o})

Raises(change) == change.exc # None

FirstRaising(changes) ==
    CHOOSE i \in DOMAIN changes :
        Raises(changes[i]) /\ \A j \in 1..(i - 1) : ~Raises(changes[j])

Supported(operation) == operation \in {"increment", "decrement"}

\* The value _prepare_transaction validates for the last update_count.
NextCount ==
    IF call.operation = "increment" THEN before.count + 1 ELSE before.count - 1

Unexpected(e) == e # None /\ ~IsStateValueError(e)

\* C1: when commit_transaction returns from a transaction one of whose
\* changes raised, the count is the one captured in initial_state, the
\* store's error is the exception raised, and nothing is raised to the caller.
C1_CommitAtomicity ==
    (call.name = "commit_transaction"
        /\ \E i \in DOMAIN call.transaction.changes : Raises(call.transaction.changes[i]))
    => /\ count = call.transaction.initial_state.count
       /\ error = call.transaction.changes[FirstRaising(call.transaction.changes)].exc
       /\ result.raised = None

\* A commit whose second change raised after the first had incremented, with
\* a transaction begun when the count was another than at the commit.
C1_Witness ==
    /\ call.name = "commit_transaction"
    /\ Len(call.transaction.changes) = 2
    /\ call.transaction.changes[1] = ApplyIncrement
    /\ Raises(call.transaction.changes[2])
    /\ call.transaction.initial_state.count # before.count
    /\ before.error # error

\* C2: every commit_transaction and every set_error call delivers exactly one
\* on_state_changed to each bound observer.
C2_SingleNotification ==
    call.name \in {"commit_transaction", "set_error"}
    => \A o \in Range(observers) : Delivered(o) = 1

\* C3: during a commit no observer is notified before the last change of the
\* attempt has run, and no delivered snapshot shows a count other than the
\* one the commit ends with.
C3_NoMidTransactionNotification ==
    call.name = "commit_transaction"
    => \A i \in DOMAIN log :
          /\ log[i].changes_run = result.changes_run
          /\ log[i].snapshot.count = count

\* C4: an error that is not a StateValueError survives update_error, whatever
\* the validation result, and so survives update_count.
C4_StickyUnexpectedError ==
    (call.name \in {"update_error", "update_count"}
        /\ result.raised = None /\ Unexpected(before.error))
    => error = before.error

\* update_error with a failed validation on a store that holds a RuntimeError.
C4_Witness ==
    /\ call.name = "update_error"
    /\ ~call.validation.is_valid
    /\ before.error = RuntimeError
    /\ error = RuntimeError

C6_RejectionSetsValidationError ==
    (call.name = "update_count" /\ Supported(call.operation) /\ NextCount < 0)
    => /\ count = before.count
       /\ IsStateValueError(error)

\* C6 amended: a rejected update_count leaves count unchanged; the store's
\* error is the StateValueError of the validation, unless the store held an
\* error that is not a StateValueError, which is kept.
C6_RejectionBlocksMutation ==
    (call.name = "update_count" /\ Supported(call.operation) /\ NextCount < 0)
    => /\ count = before.count
       /\ error = IF Unexpected(before.error) THEN before.error
                  ELSE StateValueError(NegativeDetail)

\* decrement at count 0 on a store without error.
C6_Witness ==
    /\ call.name = "update_count"
    /\ call.operation = "decrement"
    /\ before.count = 0
    /\ before.error = None
    /\ count = 0
    /\ error = StateValueError(NegativeDetail)

\* C7: n update_count("increment") calls on a fresh State leave count = n and
\* no error; an update_count whose next value passes validation changes count
\* by exactly +1 (increment) or -1 (decrement).
C7_AcceptedAppliedOnce ==
    /\ increments >= 0 => (count = increments /\ error = None)
    /\ (call.name = "update_count" /\ Supported(call.operation) /\ NextCount >= 0)
       => count = NextCount

\* Two increments on a fresh State.
C7_Witness == increments = 2 /\ count = 2 /\ error = None

\* C9: update_count and _prepare_transaction with an unsupported operation
\* raise to the caller and leave count, error and the observers as they
\* were, with the exception not stored and nobody notified.
C9_UnsupportedOperation ==
    (call.name \in {"update_count", "_prepare_transaction"} /\ ~Supported(call.operation))
    => /\ result.raised = ValueError(call.operation)
       /\ count = before.count
       /\ error = before.error
       /\ observers = before.observers
       /\ log = <<>>

\* update_count("reset") on a store with both observers bound.
C9_Witness ==
    /\ call.name = "update_count"
    /\ call.operation = "reset"
    /\ Len(observers) = 2
    /\ result.raised = ValueError("reset")

\* The task list without its i-th task.
WithoutIndex(ts, i) == SubSeq(ts, 1, i - 1) \o SubSeq(ts, i + 1, Len(ts))

\* C8: rename, toggle and remove aimed at one record change exactly that
\* record and leave every other record as it was, also when another record
\* has the same name.
C8_IdentifierKeyedMutation ==
    LET i == todo_call.index
    IN  /\ todo_call.name = "toggle_task_state"
           => tasks = [tasks_before EXCEPT
                          ![i] = with_completed(@, ~tasks_before[i].completed)]
        /\ todo_call.name = "save_task"
           => tasks = [tasks_before EXCEPT
                          ![i] = with_task_name(@, todo_call.new_task_name)]
        /\ todo_call.name = "remove_task"
           => tasks = WithoutIndex(tasks_before, i)

NoDuplicates(q) == \A i, j \in DOMAIN q : i # j => q[i] # q[j]

\* What bind and unbind of `control` owe a registry that was `old` and is `new`.
BindContract(old, new, control) ==
    control \in Range(old) => new = old

UnbindContract(old, new, control, ret) ==
    /\ ret = "True" <=> control \in Range(old)
    /\ control \in Range(old)
       => /\ control \notin Range(new)
          /\ new = SelectSeq(old, LAMBDA o : o # control)
    /\ control \notin Range(old) => new = old

\* C10: in State and in AppState the registry never holds an observer twice;
\* binding a bound observer leaves it unchanged; unbind returns True exactly
\* when the observer was bound and then removes it, and returns False and
\* leaves the registry unchanged otherwise.
C10_IdempotentBindUnbind ==
    /\ NoDuplicates(observers)
    /\ NoDuplicates(app_observers)
    /\ call.name = "bind" => BindContract(before.observers, observers, call.control)
    /\ call.name = "unbind"
       => UnbindContract(before.observers, observers, call.control, result.ret)
    /\ app_call.name = "bind"
       => BindContract(app_before.observers, app_observers, app_call.control)
    /\ app_call.name = "unbind"
       => UnbindContract(app_before.observers, app_observers, app_call.control,
                         app_result.ret)

\* A bound observer bound again to a State with two observers, and an unbind
\* of an observer that is not bound to an AppState that holds two others.
C10_Witness ==
    /\ call.name = "bind"
    /\ call.control \in Range(before.observers)
    /\ Len(observers) = 2
    /\ app_call.name = "unbind"
    /\ app_result.ret = "False"
    /\ Len(app_observers) = 2


\* The deliveries of the last counter call fall into rounds of one delivery
\* per bound observer, in binding order.
RoundsInOrder ==
    LET n == Len(observers)
    IN  IF n = 0 THEN log = <<>>
        ELSE /\ Len(log) % n = 0
             /\ \A k \in DOMAIN log :
                    /\ log[k].observer = observers[((k - 1) % n) + 1]
                    /\ log[k].round = ((k - 1) \div n) + 1

C12_RefreshCallbackOnce ==
    /\ call.name = "Actions" => result.ui_updates = 1
    /\ \A slot \in DOMAIN atasks :
            (atasks[slot].handler = "Actions" /\ atasks[slot].pc = "done")
            => atasks[slot].ui_updates = 1


\* C13: every handler of TodoActions (add_task, change_tab, clear_completed,
\* toggle_task_state, remove_task, edit_task, save_task) calls
\* update_ui_callback exactly once, and the callback finds the store as the
\* handler leaves it: all the handler's mutations are applied before it.
C13_TodoRefreshCallbackOnce ==
    todo_call.name # "init"
    => /\ Len(ui_calls) = 1
       /\ ui_calls[1] = [tasks |-> tasks, current_tab |-> current_tab]

\* A clear_completed that removed two of three tasks, followed by its one
\* callback.
C13_Witness ==
    /\ todo_call.name = "clear_completed"
    /\ Len(todo_call.task_names) = 2
    /\ Len(tasks_before) = 3
    /\ Len(tasks) = 1
    /\ ui_calls = <<[tasks |-> tasks, current_tab |-> current_tab]>>


\* C14: _prepare_transaction for increment or decrement leaves count, error
\* and the observers as they were and notifies nobody; the transaction it
\* returns holds the snapshot of the store at the call, with no change when
\* the next value is rejected and with the one matching mutator when it is
\* accepted.
C14_PlanningSideEffectFree ==
    (call.name = "_prepare_transaction" /\ Supported(call.operation))
    => /\ count = before.count
       /\ error = before.error
       /\ observers = before.observers
       /\ log = <<>>
       /\ result.raised = None
       /\ txn.open
       /\ txn.initial_state.count = before.count
       /\ txn.initial_state.error = before.error
       /\ txn.changes = IF NextCount < 0 THEN <<>>
                        ELSE IF call.operation = "increment" THEN <<ApplyIncrement>>
                        ELSE <<ApplyDecrement>>

\* An accepted decrement planned with both observers bound and an error set.
C14_Witness ==
    /\ call.name = "_prepare_transaction"
    /\ call.operation = "decrement"
    /\ Len(observers) = 2
    /\ error = RuntimeError
    /\ txn.changes = <<ApplyDecrement>>


\* The last call was asynchronous and its operation, in slot, has ended.
Resolved(slot) ==
    /\ slot \in DOMAIN atasks
    /\ atasks[slot].pc = "done"
    /\ call.name \in {"update_count_async", "commit_transaction_async"}

\* C15: used serially, update_count_async leaves the count and error that
\* update_count would have left and delivers the same snapshots to the same
\* observers in the same order, and raises what it would have raised;
\* commit_transaction_async does the same as commit_transaction, rollback
\* included.
C15_AsyncMatchesSync ==
    \A slot \in Slots :
        Resolved(slot)
        => [count |-> count, error |-> error, log |-> log, raised |-> atasks[slot].raised]
           = atasks[slot].sync

\* An update_count_async that made its change and then cleared a
\* StateValueError, with both observers told of each.
C15_Witness ==
    /\ Resolved(1)
    /\ call.name = "update_count_async"
    /\ IsStateValueError(before.error)
    /\ error = None
    /\ count = before.count + 1
    /\ Len(log) = 4

\* The indices of the changes a commit runs: all of them in order, or those
\* up to the first that raises.
ExpectedRan(changes) ==
    [k \in 1..(IF \E i \in DOMAIN changes : Raises(changes[i])
               THEN FirstRaising(changes) ELSE Len(changes)) |-> k]

\* C16: commit_transaction and commit_transaction_async run the changes in
\* list order, each once and one at a time: all of them when none raises,
\* and none after the first that raises.
C16_StepOrdering ==
    /\ call.name = "commit_transaction" => result.ran = ExpectedRan(call.transaction.changes)
    /\ \A slot \in DOMAIN atasks :
          LET task == atasks[slot]
          IN  /\ task.ran = [k \in 1..Len(task.ran) |-> k]
              /\ task.pc = "commit" => task.ran = [k \in 1..(task.i - 1) |-> k]
              /\ (task.pc = "done" /\ task.raised = None)
                    => task.ran = ExpectedRan(task.transaction.changes)

\* A commit of two changes whose first raised: the second was not run.
C16_Witness ==
    /\ call.name = "commit_transaction"
    /\ Len(call.transaction.changes) = 2
    /\ Raises(call.transaction.changes[1])
    /\ result.ran = <<1>>


\* The last call was update_count or update_count_async, it has returned
\* without raising, and the except branch of its commit caught e.
StepRaised(e) ==
    \/ /\ call.name = "update_count"
       /\ result.raised = None
       /\ result.caught = e
    \/ /\ call.name = "update_count_async"
       /\ Resolved(1)
       /\ atasks[1].raised = None
       /\ atasks[1].caught = e

C18_IdUniqueness ==
    /\ \A i, j \in DOMAIN todo_status : todo_status[i].id = todo_status[j].id => i = j
    /\ app_call.name = "add_todo"
        => /\ Len(todo_status) = Len(app_before.todo_status) + 1
           /\ SubSeq(todo_status, 1, Len(todo_status) - 1) = app_before.todo_status
           /\ LET new == todo_status[Len(todo_status)]
              IN  /\ new.id \notin app_before.ids_seen
                  /\ new.task_name = app_call.task_name
                  /\ ~new.completed
                  /\ ~new.editing
    /\ app_call.name = "remove_todo"
        => LET old == app_before.todo_status
           IN  IF \E k \in DOMAIN old : old[k].id = app_call.todo_id
               THEN \E k \in DOMAIN old :
                        old[k].id = app_call.todo_id /\ todo_status = WithoutIndex(old, k)
               ELSE todo_status = old

\* An add_todo after the first of two records was removed: the new record
\* has the third identifier.
C18_Witness ==
    /\ app_call.name = "add_todo"
    /\ Len(todo_status) = 2
    /\ app_before.ids_seen = {1, 2}
    /\ todo_status[1].id = 2
    /\ todo_status[2].id = 3


C20_NoLiveReferenceEscapes ==
    app_call.name \in {"held.pop", "held[i]"} => todo_status = app_before.todo_status

\* C21: whenever an operation of the to-do store (an assignment to
\* new_task_name or current_tab, add_todo, remove_todo, or a method of a
\* TodoState record) changes what AppState.get_snapshot() returns, every
\* bound observer has received, when the operation returns, exactly one
\* on_state_changed whose snapshot is the state after the change.
C21_EveryChangeNotified ==
    (/\ app_call.name # "init"
     /\ AppState_get_snapshot(AppStore) # AppState_get_snapshot(app_before))
    => \A o \in Range(app_observers) :
          /\ Cardinality({i \in DOMAIN app_log : app_log[i].observer = o}) = 1
          /\ \A i \in DOMAIN app_log :
                app_log[i].observer = o
                => app_log[i].snapshot = AppState_get_snapshot(AppStore)

\* The integer a text of decimal digits denotes, -1 for any other text.
RECURSIVE DecimalValue(_)
DecimalValue(text) ==
    LET last == text[Len(text)]
        digits == <<"0", "1", "2", "3", "4", "5", "6", "7", "8", "9">>
        value == CHOOSE d \in 1..10 : digits[d] = last
        front == DecimalValue(SubSeq(text, 1, Len(text) - 1))
    IN  IF text = <<>> \/ last \notin Range(digits) THEN -1
        ELSE IF Len(text) = 1 THEN value - 1
        ELSE IF front <= 0 THEN -1
        ELSE 10 * front + value - 1

\* text is the decimal text of n: a minus sign for a negative n, then the
\* digits of its magnitude without leading zeros.
IsDecimalOf(text, n) ==
    IF n < 0
    THEN text # <<>> /\ text[1] = "-" /\ DecimalValue(Tail(text)) = -n
    ELSE DecimalValue(text) = n

\* C22 as stated: Presenter._create_view_model returns, for every snapshot,
\* a ViewModel whose display_count is the decimal text of snapshot.count and
\* whose error_message is None when snapshot.error is None, the detail text
\* of the error when it is a StateValueError, and the fixed fallback message
\* for every other error.
C22_ProjectionThreeCased ==
    rendered.called =>
        /\ IsDecimalOf(rendered.view_model.display_count, rendered.snapshot.count)
        /\ rendered.view_model.error_message =
              CASE rendered.snapshot.error = None -> NoneStr
                [] IsStateValueError(rendered.snapshot.error) ->
                      rendered.snapshot.error.detail
                [] OTHER -> "An unexpected error occurred."

\* C22 amended: as above, but for a StateValueError error_message is
\* str(error), the fixed prefix of the exception's message followed by the
\* detail text.
C22_ProjectionThreeCasedPrefixed ==
    rendered.called =>
        /\ IsDecimalOf(rendered.view_model.display_count, rendered.snapshot.count)
        /\ rendered.view_model.error_message =
              CASE rendered.snapshot.error = None -> NoneStr
                [] IsStateValueError(rendered.snapshot.error) ->
                      "An error occurred: " \o rendered.snapshot.error.detail
                [] OTHER -> "An unexpected error occurred."

\* A negative count of several digits has been presented with an error that
\* is neither None nor a StateValueError.
C22_Witness ==
    /\ rendered.called
    /\ rendered.snapshot.count = -MaxShown
    /\ rendered.snapshot.error = ValueError("reset")
    /\ rendered.view_model.error_message = "An unexpected error occurred."

\* C23: from a fresh State, under update_count and update_count_async
\* operations ("increment" or "decrement") issued one after another, count
\* is never negative, in the store and in every snapshot delivered to an
\* observer.
C23_NonNegativeSerial ==
    /\ count >= 0
    /\ \A i \in DOMAIN log : log[i].snapshot.count >= 0

\* A decrement of a counter at zero has been refused, and the observer has
\* been told of the refusal.
C23_Witness ==
    /\ call.name = "Actions"
    /\ call.operation = "decrement"
    /\ before.count = 0
    /\ before.error = None
    /\ count = 0
    /\ IsStateValueError(error)
    /\ observers # <<>>
    /\ log # <<>>

\* C24: when two or more update_count_async calls on the same State are in
\* flight at once and interleave at their awaits, count is still never
\* negative: a decrement validated against one count is never applied to a
\* smaller one.
C24_NonNegativeInterleaved == count >= 0

\* C25: every snapshot delivered to an observer in the course of one
\* update_count call pairs its count with the error the store has when the
\* call has finished: none carries the new count with the error the
\* previous operation left.
C25_ConsistentSnapshots ==
    (call.name = "update_count" /\ result.raised = None)
    => \A i \in DOMAIN log : log[i].snapshot.error = error

\* C26: TodoActions.clear_completed, called with the names of the completed
\* tasks, leaves in TodoState exactly the tasks that were not completed
\* before the call, in their order and unchanged, also when a completed and
\* an active task share a name.
C26_ClearCompletedExact ==
    todo_call.name = "clear_completed"
    => tasks = SelectSeq(tasks_before, LAMBDA task : ~task.completed)

\* ids are identifiers of stored records, each once, in the order of the
\* store.
InStoreOrder(ids) ==
    /\ \A k \in DOMAIN ids : \E i \in DOMAIN todo_status : todo_status[i].id = ids[k]
    /\ \A k, l \in DOMAIN ids :
          k < l => \E i, j \in DOMAIN todo_status :
                      i < j /\ todo_status[i].id = ids[k] /\ todo_status[j].id = ids[l]

\* C27: for every AppState, filter_todo_status(Tab.ACTIVE) returns exactly
\* the records with completed = False and filter_todo_status(Tab.COMPLETED)
\* exactly those with completed = True, each in store order; the two
\* results are disjoint and together hold exactly the records of
\* filter_todo_status(Tab.ALL); the call changes no state and notifies
\* nobody.
C27_TabFilterPartition ==
    LET active == AppState_filter_todo_status(AppStore, "active")
        completed == AppState_filter_todo_status(AppStore, "completed")
        all == AppState_filter_todo_status(AppStore, "all")
        ids(r) == HeldIds(r.ret, todo_status)
    IN  /\ active.raised = None /\ completed.raised = None /\ all.raised = None
        /\ InStoreOrder(ids(active)) /\ InStoreOrder(ids(completed))
        /\ \A i \in DOMAIN todo_status :
              /\ todo_status[i].id \in Range(ids(active)) <=> ~todo_status[i].completed
              /\ todo_status[i].id \in Range(ids(completed)) <=> todo_status[i].completed
        /\ Range(ids(active)) \cap Range(ids(completed)) = {}
        /\ Range(ids(active)) \cup Range(ids(completed)) = Range(ids(all))
        /\ Len(ids(active)) + Len(ids(completed)) = Len(ids(all))
        /\ (app_call.name = "filter_todo_status" /\ app_result.raised = None)
           => /\ AppStore = app_before
              /\ app_log = <<>>
              /\ HeldIds(held, todo_status) =
                    ids(AppState_filter_todo_status(AppStore, app_call.tab))

\* filter_todo_status(Tab.ACTIVE) has been called, with an observer bound,
\* on a store that holds a completed record before an active one.
C27_Witness ==
    /\ app_call.name = "filter_todo_status"
    /\ app_call.tab = "active"
    /\ app_observers # <<>>
    /\ Len(todo_status) = 2
    /\ todo_status[1].completed /\ ~todo_status[2].completed
    /\ HeldIds(held, todo_status) = <<todo_status[2].id>>

\* C28: when an observer calls unbind or bind from inside on_state_changed,
\* every observer that was bound when the notify round started and has not
\* been unbound still receives the round's snapshot exactly once.
C28_NotifyRobustToRegistryChanges ==
    call.name = "set_error"
    => \A o \in Range(before.observers) \cap Range(observers) : Delivered(o) = 1

=============================================================================
